---- MODULE Spec2Model ----
(***************************************************************************)
(* Model of akx/holey: the point generators (sunflower, geodesic sunflower *)
(* and ring lattice), the nearest-neighbour statistics, the control panel  *)
(* of App, and the hex-lattice generator of the earlier variant of the     *)
(* file.                                                                   *)
(*                                                                         *)
(* Number representation.  The control panel only yields decimal numbers   *)
(* with a fixed step, so they are kept as scaled integers:                 *)
(*   alpha, twist  in hundredths (step 0.01),                              *)
(*   nPerLayer, radius, genProps.size  in tenths (step 0.1),               *)
(*   n, layers, the panel's size  as integers (step 1).                    *)
(* A generated point is kept in polar form, exactly: the square of its     *)
(* radius factor as a fraction rnum/rden and the terms of its angle.  The  *)
(* cosine, the sine and roundFloat of lines 47-49 and 74-76 are not        *)
(* evaluated; nothing below depends on their values.                       *)
(* The statistics work on Cartesian points whose coordinates are integers  *)
(* in hundredths (what roundFloat emits) and on IEEE-like numbers: a       *)
(* record [kind, v] with kind "fin" (v in units of 1/StatScale of a        *)
(* hundredth), "inf", "ninf", "nan" or "undefined".                        *)
(***************************************************************************)
EXTENDS Integers, Sequences, FiniteSets, TLC

VARIABLES ctl, genProps, points, phase,
          statPoints, statSize, pointStats,
          hexArgs, hexPoints

vars == <<ctl, genProps, points, phase, statPoints, statSize, pointStats,
          hexArgs, hexPoints>>

(***************************************************************************)
(* Bounds of the model.                                                    *)
(***************************************************************************)
MaxN == 5
MaxLayers == 4
MaxPanelN == 3
MaxPanelLayers == 2
MaxStatPoints == 4
MaxCoord == 1
MaxStatSize == 2
MaxHexN == 8
MaxHexLayers == 4

\* Values of the real-valued arguments of generatePoints that are explored
\* (scaled integers).
AlphaValues == {0, 100, 300}
NPerLayerValues == {0, 5, 10, 60}
TwistValues == {0, 25}
GenSizeValues == {-1900, 0, 100, 5000}
HexSizeValues == {10, 500}

\* Values the panel of App is moved to, each within the range its control
\* declares (lines 231-237).
PanelAlphaValues == {0, 200}
PanelNPerLayerValues == {0, 60}
PanelSizeValues == {10, 500}
PanelRadiusValues == {45, 50, 1000}
PanelTwistValues == {0, 25}

MODES == <<"sunflower", "sunflowerGeodesic", "lattice">>

ModeSet == {MODES[i] : i \in 1..Len(MODES)}

(***************************************************************************)
(* Sunflower generator.                                                    *)
(***************************************************************************)

\* Math.round(alpha * Math.sqrt(n)) with alpha in hundredths: the largest
\* integer b with b - 1/2 <= alpha*sqrt(n), i.e. b = 0 or
\* (100 b - 50)^2 <= alpha^2 n.
boundaryCount(n, alpha) ==
    LET cand == {b \in 0..((alpha * n) \div 100 + 1) :
                    b = 0 \/ (100 * b - 50) * (100 * b - 50) <= alpha * alpha * n}
    IN  CHOOSE b \in cand : \A c \in cand : c <= b

\* A mutant of radius: the boundary test looks at n + b instead of n - b.
radiusWrongBoundary(k, n, b) ==
    IF k > n + b
      THEN [num |-> 1, den |-> 1]
      ELSE [num |-> 2 * k - 1, den |-> 2 * n - b - 1]

\* The square of the radius factor, as a fraction:
\* (sqrt(k - 0.5) / sqrt(n - (b + 1) / 2))^2 = (2k - 1) / (2n - b - 1).
radius(k, n, b) ==
    IF k > n - b
      THEN [num |-> 1, den |-> 1]
      ELSE [num |-> 2 * k - 1, den |-> 2 * n - b - 1]

sunflowerPoint(k, n, b, geodesic, size) ==
    [k |-> k, rnum |-> radius(k, n, b).num, rden |-> radius(k, n, b).den,
     size |-> size, geodesic |-> geodesic]

RECURSIVE sunflowerLoopSkipsLast(_, _, _, _, _, _)
\* A mutant of sunflowerLoop: the loop test is k < n.
sunflowerLoopSkipsLast(k, n, b, geodesic, size, acc) ==
    IF k < n
      THEN sunflowerLoopSkipsLast(k + 1, n, b, geodesic, size,
                              Append(acc, sunflowerPoint(k, n, b, geodesic, size)))
      ELSE acc

RECURSIVE sunflowerLoop(_, _, _, _, _, _)
\* for (let k = 1; k <= n; k++) points.push(...)
sunflowerLoop(k, n, b, geodesic, size, acc) ==
    IF k <= n
      THEN sunflowerLoop(k + 1, n, b, geodesic, size,
                         Append(acc, sunflowerPoint(k, n, b, geodesic, size)))
      ELSE acc

generateSunflowerPoints(n, alpha, geodesic, size) ==
    sunflowerLoop(1, n, boundaryCount(n, alpha), geodesic, size, <<>>)

(***************************************************************************)
(* Lattice generator.                                                      *)
(***************************************************************************)

latticePoint(layer, i, pointsPerLayer, size, layers, twist) ==
    [layer |-> layer, i |-> i, pointsPerLayer |-> pointsPerLayer,
     rnum |-> layer * size, rden |-> 2 * layers, twistLayer |-> twist * layer]

RECURSIVE ringLoopInclusive(_, _, _, _, _, _, _)
\* A mutant of ringLoop: the loop test is i <= pointsPerLayer.
ringLoopInclusive(i, layer, pointsPerLayer, size, layers, twist, acc) ==
    IF 10 * i <= pointsPerLayer
      THEN ringLoopInclusive(i + 1, layer, pointsPerLayer, size, layers, twist,
                             Append(acc, latticePoint(layer, i, pointsPerLayer,
                                                      size, layers, twist)))
      ELSE acc

RECURSIVE ringLoop(_, _, _, _, _, _, _)
\* for (let i = 0; i < pointsPerLayer; i++), pointsPerLayer in tenths.
\* The tenths are exact for the nPerLayer values explored (multiples of
\* 0.5, which layer * nPerLayer keeps exact in binary floating point).
ringLoop(i, layer, pointsPerLayer, size, layers, twist, acc) ==
    IF 10 * i < pointsPerLayer
      THEN ringLoop(i + 1, layer, pointsPerLayer, size, layers, twist,
                    Append(acc, latticePoint(layer, i, pointsPerLayer, size,
                                             layers, twist)))
      ELSE acc

RECURSIVE layerLoop(_, _, _, _, _, _)
\* for (let layer = 0; layer < layers; layer++)
layerLoop(layer, size, layers, nPerLayer, twist, acc) ==
    IF layer < layers
      THEN layerLoop(layer + 1, size, layers, nPerLayer, twist,
                     ringLoop(0, layer, 10 + layer * nPerLayer, size, layers,
                              twist, acc))
      ELSE acc

\* The full ring-by-ring sequence, before the decimation.
latticeRings(size, layers, nPerLayer, twist) ==
    layerLoop(0, size, layers, nPerLayer, twist, <<>>)

RECURSIVE decimateLoop(_, _, _, _)
\* for (let i = 0; i < points.length; i += stride) newPoints.push(points[i])
decimateLoop(i, stride, pts, acc) ==
    IF i < Len(pts)
      THEN decimateLoop(i + stride, stride, pts, Append(acc, pts[i + 1]))
      ELSE acc

\* A mutant of decimate: the stride is rounded up instead of down.
decimateCeilStride(pts, n) ==
    IF Len(pts) > n
      THEN IF n = 0
             THEN <<pts[1]>>
             ELSE decimateLoop(0, (Len(pts) + n - 1) \div n, pts, <<>>)
      ELSE pts

\* Lines 79-88.  n = 0 makes the stride Infinity: the loop runs once.
decimate(pts, n) ==
    IF Len(pts) > n
      THEN IF n = 0
             THEN <<pts[1]>>
             ELSE decimateLoop(0, Len(pts) \div n, pts, <<>>)
      ELSE pts

generateLatticePoints(n, size, layers, nPerLayer, twist) ==
    decimate(latticeRings(size, layers, nPerLayer, twist), n)

generatePoints(gp) ==
    CASE gp.mode \in {"sunflower", "sunflowerGeodesic"} ->
           generateSunflowerPoints(gp.n, gp.alpha,
                                   gp.mode = "sunflowerGeodesic", gp.size)
      [] gp.mode = "lattice" ->
           generateLatticePoints(gp.n, gp.size, gp.layers, gp.nPerLayer,
                                 gp.twist)
      [] OTHER -> <<>>

(***************************************************************************)
(* App: the control panel and the render that follows every change.        *)
(* The style toggles (svg, center, crosshair) only select markup and are   *)
(* left out; the statistics of line 256 are modelled on their own below,   *)
(* on Cartesian points.                                                    *)
(***************************************************************************)

\* Lines 243-254: genProps, its size (in tenths) adjusted when asked.
makeGenProps(c) ==
    [n |-> c.n, alpha |-> c.alpha, mode |-> c.mode,
     size |-> IF c.adjustSizeToFitRadius
                THEN 10 * c.size - 2 * c.radius
                ELSE 10 * c.size,
     layers |-> c.layers, twist |-> c.twist, nPerLayer |-> c.nPerLayer]

\* The body of App for the control values c (lines 243-255).
Render(c) ==
    /\ ctl' = c
    /\ genProps' = makeGenProps(c)
    /\ points' = generatePoints(makeGenProps(c))
    /\ UNCHANGED <<phase, statPoints, statSize, pointStats, hexArgs, hexPoints>>

SetMode == \E v \in ModeSet : Render([ctl EXCEPT !.mode = v])

SetN == \E v \in 1..MaxPanelN : Render([ctl EXCEPT !.n = v])

SetAlpha == \E v \in PanelAlphaValues : Render([ctl EXCEPT !.alpha = v])

SetLayers == \E v \in 1..MaxPanelLayers : Render([ctl EXCEPT !.layers = v])

SetNPerLayer ==
    \E v \in PanelNPerLayerValues : Render([ctl EXCEPT !.nPerLayer = v])

SetSize == \E v \in PanelSizeValues : Render([ctl EXCEPT !.size = v])

SetRadius == \E v \in PanelRadiusValues : Render([ctl EXCEPT !.radius = v])

SetTwist == \E v \in PanelTwistValues : Render([ctl EXCEPT !.twist = v])

ToggleAdjustSizeToFitRadius ==
    Render([ctl EXCEPT !.adjustSizeToFitRadius = ~ctl.adjustSizeToFitRadius])

\* The panel's initial values (lines 229-241).
DefaultControls ==
    [mode |-> "sunflower", n |-> 50, alpha |-> 200, layers |-> 5,
     nPerLayer |-> 60, size |-> 500, radius |-> 45, twist |-> 0,
     adjustSizeToFitRadius |-> FALSE]

NoStats == [kind |-> "undefined", v |-> 0]

IdleStats ==
    /\ statPoints = <<>>
    /\ statSize = 1
    /\ pointStats = NoStats

IdleHex ==
    /\ hexArgs = [n |-> 1, size |-> 10, layers |-> 1]
    /\ hexPoints = <<>>

IdleApp ==
    /\ ctl = DefaultControls
    /\ genProps = makeGenProps(DefaultControls)
    /\ points = <<>>

\* App after its first render, with the panel's initial values.
Init ==
    /\ ctl = DefaultControls
    /\ genProps = makeGenProps(ctl)
    /\ points = generatePoints(genProps)
    /\ phase = "output"
    /\ IdleStats
    /\ IdleHex

Next ==
    \/ SetMode
    \/ SetN
    \/ SetAlpha
    \/ SetLayers
    \/ SetNPerLayer
    \/ SetSize
    \/ SetRadius
    \/ SetTwist
    \/ ToggleAdjustSizeToFitRadius

Spec == Init /\ [][Next]_vars

(***************************************************************************)
(* generatePoints as a function of its argument.                           *)
(***************************************************************************)

GenPropsSpace ==
    [n : 0..MaxN, alpha : AlphaValues, mode : ModeSet, size : GenSizeValues,
     layers : 0..MaxLayers, twist : TwistValues, nPerLayer : NPerLayerValues]

InitGen ==
    /\ ctl = DefaultControls
    /\ genProps \in GenPropsSpace
    /\ points = <<>>
    /\ phase = "input"
    /\ IdleStats
    /\ IdleHex

GeneratePoints ==
    /\ phase = "input"
    /\ points' = generatePoints(genProps)
    /\ phase' = "output"
    /\ UNCHANGED <<ctl, genProps, statPoints, statSize, pointStats, hexArgs,
                   hexPoints>>

NextGen == GeneratePoints

SpecGen == InitGen /\ [][NextGen]_vars

(***************************************************************************)
(* Claims about the generators, under SpecGen.                             *)
(***************************************************************************)

Generated == phase = "output"

SunflowerMode == genProps.mode \in {"sunflower", "sunflowerGeodesic"}

LatticeMode == genProps.mode = "lattice"

\* The ring-by-ring sequence of the current lattice arguments.
FullRings ==
    latticeRings(genProps.size, genProps.layers, genProps.nPerLayer,
                 genProps.twist)

\* C1: in lattice mode, for n >= 1, layers >= 1 and nPerLayer >= 0, the
\* generator never returns more than n points.
C1_LatticeAtMostN ==
    (Generated /\ LatticeMode /\ genProps.n >= 1 /\ genProps.layers >= 1)
        => Len(points) <= genProps.n

\* C3: in the sunflower modes the generator returns exactly n points, the
\* j-th of them the point of k = j (the empty sequence for n = 0).
C3_SunflowerExactlyN ==
    (Generated /\ SunflowerMode)
        => /\ Len(points) = genProps.n
           /\ \A j \in 1..Len(points) : points[j].k = j

C3_Witness ==
    /\ Generated
    /\ genProps.mode = "sunflowerGeodesic"
    /\ genProps.n = MaxN
    /\ Len(points) = MaxN
    /\ points[MaxN].k = MaxN

OnePerRing ==
    /\ Len(points) = genProps.layers
    /\ \A j \in 1..Len(points) : points[j].layer = j - 1 /\ points[j].i = 0

StatScale == 100

\* The finite number 1.0, in units.
One == 100 * StatScale

Fin(v) == [kind |-> "fin", v |-> v]

PosInf == [kind |-> "inf", v |-> 0]

NegInf == [kind |-> "ninf", v |-> 0]

NaN == [kind |-> "nan", v |-> 0]

Undefined == [kind |-> "undefined", v |-> 0]

numNeg(a) ==
    CASE a.kind = "fin" -> Fin(0 - a.v)
      [] a.kind = "inf" -> NegInf
      [] a.kind = "ninf" -> PosInf
      [] OTHER -> NaN

numAdd(a, b) ==
    CASE a.kind = "nan" \/ b.kind = "nan" -> NaN
      [] a.kind = "fin" /\ b.kind = "fin" -> Fin(a.v + b.v)
      [] a.kind = "fin" -> b
      [] b.kind = "fin" -> a
      [] a.kind = b.kind -> a
      [] OTHER -> NaN

numSub(a, b) == numAdd(a, numNeg(b))

numAbs(a) ==
    CASE a.kind = "fin" -> Fin(IF a.v < 0 THEN 0 - a.v ELSE a.v)
      [] a.kind \in {"inf", "ninf"} -> PosInf
      [] OTHER -> NaN

\* a < b; false when either is NaN.
numLt(a, b) ==
    CASE a.kind = "nan" \/ b.kind = "nan" -> FALSE
      [] a.kind = "fin" /\ b.kind = "fin" -> a.v < b.v
      [] a.kind = "ninf" -> b.kind # "ninf"
      [] b.kind = "inf" -> a.kind # "inf"
      [] OTHER -> FALSE

\* a / b.  A finite quotient is cut to the unit (floor).
numDiv(a, b) ==
    CASE a.kind = "nan" \/ b.kind = "nan" -> NaN
      [] a.kind # "fin" /\ b.kind # "fin" -> NaN
      [] a.kind # "fin" -> IF b.v >= 0 THEN a ELSE numNeg(a)
      [] b.kind # "fin" -> Fin(0)
      [] b.v = 0 -> IF a.v = 0 THEN NaN ELSE IF a.v > 0 THEN PosInf ELSE NegInf
      [] OTHER -> Fin((a.v * One) \div b.v)

\* The finite number of an integer count or size.
numOfInt(k) == Fin(k * One)

RECURSIVE isqrtNewton(_, _)
isqrtNewton(x, r) ==
    LET nxt == (r + x \div r) \div 2
    IN  IF nxt >= r THEN r ELSE isqrtNewton(x, nxt)

\* floor(sqrt(x)) for x >= 0.
isqrt(x) == IF x = 0 THEN 0 ELSE isqrtNewton(x, x)

\* Math.hypot(dx, dy) of two coordinate differences in hundredths.
hypot(dx, dy) == Fin(isqrt((dx * dx + dy * dy) * StatScale * StatScale))

RECURSIVE mathMin(_)
\* Math.min(...s): +Infinity for no argument, NaN if any argument is NaN.
mathMin(s) ==
    IF s = <<>>
      THEN PosInf
      ELSE LET m == mathMin(Tail(s))
           IN  IF Head(s).kind = "nan" \/ m.kind = "nan" THEN NaN
               ELSE IF numLt(Head(s), m) THEN Head(s) ELSE m

RECURSIVE mathMax(_)
\* Math.max(...s): -Infinity for no argument, NaN if any argument is NaN.
mathMax(s) ==
    IF s = <<>>
      THEN NegInf
      ELSE LET m == mathMax(Tail(s))
           IN  IF Head(s).kind = "nan" \/ m.kind = "nan" THEN NaN
               ELSE IF numLt(m, Head(s)) THEN Head(s) ELSE m

RECURSIVE numSum(_, _)
\* distances.reduce((a, b) => a + b, 0)
numSum(s, acc) ==
    IF s = <<>> THEN acc ELSE numSum(Tail(s), numAdd(acc, Head(s)))

\* The comparator (a, b) => a - b says a goes after b; a NaN counts as 0.
sortsAfter(a, b) == numLt(Fin(0), numSub(a, b))

RECURSIVE insertSorted(_, _)
insertSorted(x, s) ==
    IF s = <<>>
      THEN <<x>>
      ELSE IF sortsAfter(Head(s), x)
             THEN <<x>> \o s
             ELSE <<Head(s)>> \o insertSorted(x, Tail(s))

RECURSIVE sortAscending(_)
\* [...distances].sort((a, b) => a - b), a stable sort.
sortAscending(s) ==
    IF s = <<>>
      THEN <<>>
      ELSE insertSorted(s[Len(s)], sortAscending(SubSeq(s, 1, Len(s) - 1)))

(***************************************************************************)
(* computePointStats.                                                      *)
(***************************************************************************)

RECURSIVE nearestLoopIncludesSelf(_, _, _, _, _)
\* A mutant of nearestLoop: the test i === j is missing.
nearestLoopIncludesSelf(i, j, pts, size, minDistance) ==
    IF j > Len(pts)
      THEN minDistance
      ELSE LET distance == numDiv(hypot(pts[i][1] - pts[j][1],
                                        pts[i][2] - pts[j][2]),
                                  numOfInt(size))
           IN  nearestLoopIncludesSelf(i, j + 1, pts, size,
                   IF numLt(distance, minDistance)
                     THEN distance
                     ELSE minDistance)

RECURSIVE nearestLoop(_, _, _, _, _)
\* Lines 184-191, for point i, from index j (both from 1 here).
nearestLoop(i, j, pts, size, minDistance) ==
    IF j > Len(pts)
      THEN minDistance
      ELSE IF i = j
        THEN nearestLoop(i, j + 1, pts, size, minDistance)
        ELSE LET distance == numDiv(hypot(pts[i][1] - pts[j][1],
                                          pts[i][2] - pts[j][2]),
                                    numOfInt(size))
             IN  nearestLoop(i, j + 1, pts, size,
                     IF numLt(distance, minDistance)
                       THEN distance
                       ELSE minDistance)

\* A mutant of nearestStart: the running minimum starts at 0.
nearestStartZero == Fin(0)

\* let minDistance = Number.POSITIVE_INFINITY
nearestStart == PosInf

\* Lines 182-193: each point's distance to its nearest other point.
nearestDistances(pts, size) ==
    [i \in 1..Len(pts) |-> nearestLoop(i, 1, pts, size, nearestStart)]

\* A mutant of medianOf: the lower of the two middle elements.
medianOfLower(sorted) ==
    IF sorted = <<>> THEN Undefined ELSE sorted[(Len(sorted) - 1) \div 2 + 1]

\* sorted[Math.floor(sorted.length / 2)], undefined for an empty array.
medianOf(sorted) ==
    IF sorted = <<>> THEN Undefined ELSE sorted[Len(sorted) \div 2 + 1]

computePointStats(pts, size) ==
    LET distances == nearestDistances(pts, size)
        average == numDiv(numSum(distances, Fin(0)), numOfInt(Len(pts)))
        diffs == [i \in 1..Len(distances) |->
                     numAbs(numSub(distances[i], average))]
    IN  [average |-> average,
         median |-> medianOf(sortAscending(distances)),
         minimum |-> mathMin(distances),
         maximum |-> mathMax(distances),
         maxDiffFromAverageNorm |-> numDiv(mathMax(diffs), average)]

\* The y coordinates explored (hundredths); x ranges over 0..MaxCoord.
StatRowValues == {0, 1}

StatPointsSpace ==
    UNION {[1..k -> (0..MaxCoord) \X StatRowValues] : k \in 0..MaxStatPoints}

InitStats ==
    /\ IdleApp
    /\ IdleHex
    /\ phase = "input"
    /\ statPoints \in StatPointsSpace
    /\ statSize \in 1..MaxStatSize
    /\ pointStats = NoStats

ComputePointStats ==
    /\ phase = "input"
    /\ pointStats' = computePointStats(statPoints, statSize)
    /\ phase' = "output"
    /\ UNCHANGED <<ctl, genProps, points, statPoints, statSize, hexArgs,
                   hexPoints>>

NextStats == ComputePointStats

SpecStats == InitStats /\ [][NextStats]_vars

(***************************************************************************)
(* Claims about the statistics, under SpecStats.                           *)
(***************************************************************************)

numLe(a, b) == a.kind # "nan" /\ b.kind # "nan" /\ ~numLt(b, a)

\* m is the k-th smallest (k from 1) of the numbers of d.
IsKthSmallest(m, k, d) ==
    /\ \E i \in 1..Len(d) : d[i] = m
    /\ Cardinality({i \in 1..Len(d) : numLt(d[i], m)}) < k
    /\ Cardinality({i \in 1..Len(d) : numLe(d[i], m)}) >= k

StatDistances == nearestDistances(statPoints, statSize)

TwoPointDistance ==
    hypot(statPoints[1][1] - statPoints[2][1],
          statPoints[1][2] - statPoints[2][2])

TwoPointStats ==
    /\ pointStats.average = TwoPointDistance
    /\ pointStats.minimum = TwoPointDistance
    /\ pointStats.maximum = TwoPointDistance
    /\ pointStats.maxDiffFromAverageNorm = Fin(0)

\* C6 as stated: for any two points at distance d, with size = 1,
\* average = minimum = maximum = d and maxDiffFromAverageNorm = 0.
C6_Original ==
    (Generated /\ Len(statPoints) = 2 /\ statSize = 1) => TwoPointStats

\* C6 amended: for two distinct points (d > 0), with size = 1,
\* average = minimum = maximum = d and maxDiffFromAverageNorm = 0; for two
\* coincident points maxDiffFromAverageNorm is NaN (0 / 0).
C6_TwoDistinctPoints ==
    (Generated /\ Len(statPoints) = 2 /\ statSize = 1)
        => IF statPoints[1] # statPoints[2]
             THEN TwoPointStats
             ELSE /\ pointStats.average = Fin(0)
                  /\ pointStats.minimum = Fin(0)
                  /\ pointStats.maximum = Fin(0)
                  /\ pointStats.maxDiffFromAverageNorm = NaN

C6_Witness ==
    /\ Generated
    /\ Len(statPoints) = 2
    /\ statSize = 1
    /\ statPoints[1] # statPoints[2]
    /\ TwoPointDistance.v > 0
    /\ pointStats.average = TwoPointDistance
    /\ pointStats.maxDiffFromAverageNorm = Fin(0)

\* C7: for exactly one point the statistics are produced, and minimum,
\* maximum and median are all +Infinity.
C7_OnePointInfinite ==
    (Generated /\ Len(statPoints) = 1)
        => /\ pointStats.minimum = PosInf
           /\ pointStats.maximum = PosInf
           /\ pointStats.median = PosInf

C7_Witness ==
    /\ Generated
    /\ Len(statPoints) = 1
    /\ StatDistances = <<PosInf>>
    /\ pointStats.average = PosInf
    /\ pointStats.maxDiffFromAverageNorm = NaN

(***************************************************************************)
(* The earlier variant: generateHexLatticePoints.                          *)
(***************************************************************************)

\* https://oeis.org/A008458
hexLatticeNumbers ==
    <<1, 6, 12, 18, 24, 30, 36, 42, 48, 54, 60, 66, 72, 78, 84, 90, 96, 102,
      108, 114, 120, 126, 132, 138, 144, 150, 156, 162, 168, 174, 180, 186,
      192, 198, 204, 210, 216, 222, 228, 234, 240, 246, 252, 258, 264, 270,
      276, 282, 288, 294, 300, 306, 312, 318, 324, 330, 336, 342, 348>>

hexPoint(layer, i, pointsPerLayer, size, layers) ==
    [layer |-> layer, i |-> i, pointsPerLayer |-> pointsPerLayer,
     rnum |-> layer * size, rden |-> 2 * layers]

RECURSIVE hexRingLoop(_, _, _, _, _, _)
\* for (let i = 0; i < pointsPerLayer; i++)
hexRingLoop(i, layer, pointsPerLayer, size, layers, acc) ==
    IF i < pointsPerLayer
      THEN hexRingLoop(i + 1, layer, pointsPerLayer, size, layers,
                       Append(acc, hexPoint(layer, i, pointsPerLayer, size,
                                            layers)))
      ELSE acc

RECURSIVE hexLayerLoop(_, _, _, _)
\* for (let layer = 0; layer < layers; layer++), left by the break when the
\* table has no entry for the layer.
hexLayerLoop(layer, size, layers, acc) ==
    IF layer < layers /\ layer + 1 <= Len(hexLatticeNumbers)
      THEN hexLayerLoop(layer + 1, size, layers,
                        hexRingLoop(0, layer, hexLatticeNumbers[layer + 1],
                                    size, layers, acc))
      ELSE acc

\* n is a parameter the body never reads.
generateHexLatticePoints(n, size, layers) ==
    hexLayerLoop(0, size, layers, <<>>)

HexArgsSpace ==
    [n : 1..MaxHexN, size : HexSizeValues, layers : 1..MaxHexLayers]

InitHex ==
    /\ IdleApp
    /\ IdleStats
    /\ phase = "input"
    /\ hexArgs \in HexArgsSpace
    /\ hexPoints = <<>>

GenerateHexLatticePoints ==
    /\ phase = "input"
    /\ hexPoints' = generateHexLatticePoints(hexArgs.n, hexArgs.size,
                                             hexArgs.layers)
    /\ phase' = "output"
    /\ UNCHANGED <<ctl, genProps, points, statPoints, statSize, pointStats,
                   hexArgs>>

NextHex == GenerateHexLatticePoints

SpecHex == InitHex /\ [][NextHex]_vars

\* C9: the hex-lattice generator returns at most n points, one of them at
\* the centre (radius 0, hence (0, 0)).
C9_HexAtMostN ==
    Generated
        => /\ Len(hexPoints) <= hexArgs.n
           /\ \E j \in 1..Len(hexPoints) : hexPoints[j].rnum = 0

(***************************************************************************)
(* Claim about App, under Spec.                                            *)
(***************************************************************************)

\* C8: the size App passes to generatePoints is positive for every panel
\* configuration.
C8_GenSizePositive == genProps.size > 0

====
